---- MODULE Spec2Model ----
(***************************************************************************)
(* A model of vigilant (src/main.go): a server that watches a file in a    *)
(* source repository and opens a pull request in a target repository when  *)
(* commits newer than the pair's watermark (RepoConfig.LastChecked) touch  *)
(* that file.                                                              *)
(*                                                                         *)
(* Goroutines of the program:                                              *)
(*   - main, inside Server.Run: the select loop over ticker.C and          *)
(*     ctx.Done();                                                         *)
(*   - the signal goroutine of main: SIGUSR1 -> triggerManualCheck,        *)
(*     SIGTERM/SIGINT -> stop();                                           *)
(*   - one goroutine per started checkRepos (a "cycle"), started by Run    *)
(*     (kind "tick", counted in the WaitGroup) or by triggerManualCheck    *)
(*     (kind "manual", not counted).                                       *)
(* A cycle takes one step per remote call (the only blocking points); the  *)
(* assignment LastChecked = time.Now() is two steps, the clock reading and *)
(* the store, because nothing in the code makes it atomic.                 *)
(*                                                                         *)
(* Instants are integers; a commit is identified by its author date, which  *)
(* is set by its author and bears no relation to the server's clock.       *)
(*                                                                         *)
(* src/main.go holds two revisions of the program. The model follows the   *)
(* first (lines 1-284), the one with the manual trigger; checkRepos,       *)
(* checkRepo and createPullRequest of the second (lines 286-523) take the  *)
(* same steps in the same order.                                           *)
(***************************************************************************)
EXTENDS Integers, Sequences, FiniteSets, TLC

\* ---- bounds of the model ------------------------------------------------
NumPairs == 2          \* most [[repos]] entries of a configuration
MaxTime == 2           \* the clock and the author dates range over 1..MaxTime
MaxCycles == 2         \* most executions of checkRepos started in one run
MaxPush == 2           \* commits that become visible on the host in one run
MaxLen == 3            \* longest commit list handed to checkRepo on its own

Pairs == 1..NumPairs
Times == 0..MaxTime
Dates == 1..MaxTime    \* author dates of the commits pushed during a run
Cycles == 1..MaxCycles
SinceDates == {0}      \* values of the configured "since" date
\* repository identifiers a configuration may hold: validate() only asks for
\* a non-empty string
RepoNames == {<<"o", "/", "r">>, <<"r">>}

VARIABLES
    now,          \* the wall clock read by time.Now()
    hostCommits,  \* per pair: commits touching the file that the host shows
    branches,     \* per pair: branch names existing in the target repository
    files,        \* per pair: branches that hold the notification file
    prs,          \* per pair: pull requests created, [head, body]
    Since,        \* RepoConfig.Since of each pair (never written after load)
    SourceRepoName,  \* RepoConfig.SourceRepoName of each pair, as characters
    TargetRepoName,  \* RepoConfig.TargetRepoName of each pair, as characters
    LastChecked,  \* RepoConfig.LastChecked of each pair (the watermark)
    tickerC,      \* a tick is waiting in ticker.C (a channel of capacity 1)
    ctxDone,      \* stop() has been called: ctx.Done() is closed
    runPc,        \* Server.Run: "select", "wait" (in wg.Wait), "returned"
    wg,           \* the WaitGroup counter of Run
    sigPc,        \* signal goroutine: "recv" (in its loop) or "returned"
    mu,           \* Server.mu is held
    fatal,        \* log.Fatalf has ended the process
    pc,           \* per cycle: position of its checkRepos goroutine
    kind,         \* per cycle: "tick" or "manual"
    idx,          \* per cycle: the loop index i of checkRepos (1-based)
    config,       \* per cycle: LastChecked of the loop's copy of the pair
    newCommits,   \* per cycle: result of checkRepo for the current pair
    branchName,   \* per cycle: time stamp of createPullRequest's branch name
    calls,        \* per cycle: remote calls made for the current pair
    stamp,        \* per cycle: value of time.Now() about to be stored
    lastDone,     \* the most recently completed cycle: what it published
    published,    \* per cycle: pairs whose publish succeeded so far
    startsLeft,   \* cycles that may still be started (bounds the run)
    scanCommits,  \* checkRepo on its own: the list returned by ListCommits
    scanSince,    \* checkRepo on its own: the lastChecked argument
    scanErr,      \* checkRepo on its own: ListCommits returned an error
    scanState,    \* checkRepo on its own: "idle", "ready", "returned"
    scanResult    \* checkRepo on its own: the returned newCommits

sysVars == <<now, hostCommits, branches, files, prs, Since, SourceRepoName,
             TargetRepoName, LastChecked, tickerC, ctxDone, runPc, wg, sigPc,
             mu, fatal, pc, kind, idx, config,
             newCommits, branchName, calls, stamp, lastDone, published,
             startsLeft>>
scanVars == <<scanCommits, scanSince, scanErr, scanState, scanResult>>
vars == <<sysVars, scanVars>>
hostVars == <<hostCommits, branches, files, prs>>
schedVars == <<tickerC, ctxDone, runPc, wg, sigPc, mu, fatal>>
confVars == <<Since, SourceRepoName, TargetRepoName>>
cycleVars == <<pc, kind, idx, config, newCommits, branchName, calls, stamp,
               published>>

\* ---- pure functions -----------------------------------------------------

\* a comparison that also accepts the instant itself
NotBefore(d, t) == d >= t

\* time.Time.After
After(d, t) == d > t

\* the filter loop of checkRepo over the commits ListCommits returned
RECURSIVE checkRepo(_, _)
checkRepo(commits, lastChecked) ==
    IF commits = <<>> THEN <<>>
    ELSE (IF After(Head(commits), lastChecked) THEN <<Head(commits)>> ELSE <<>>)
         \o checkRepo(Tail(commits), lastChecked)

\* the host lists commits newest first
RECURSIVE NewestFirst(_)
NewestFirst(S) ==
    IF S = {} THEN <<>>
    ELSE LET m == CHOOSE x \in S : \A y \in S : y <= x
         IN <<m>> \o NewestFirst(S \ {m})

\* what Repositories.ListCommits answers for CommitsListOptions{Since: since}:
\* the commits at or after since
ListCommits(p, since) == NewestFirst({c \in hostCommits[p] : c >= since})

Elems(s) == {s[k] : k \in DOMAIN s}

\* len(strings.Split(fullRepoName, "/")): one part more than separators
SplitParts(fullRepoName) ==
    1 + Cardinality({k \in DOMAIN fullRepoName : fullRepoName[k] = "/"})

\* parseRepoName returns (owner, repo); otherwise it calls log.Fatalf
parseRepoNameReturns(fullRepoName) == SplitParts(fullRepoName) = 2

Call(op, ok) == [op |-> op, ok |-> ok]

\* the pairs of the loaded configuration: the indices of s.repoConfigs
Configured == DOMAIN LastChecked

\* ---- initial state ------------------------------------------------------

\* main after loadConfig: LastChecked of every pair is its parsed "since" date
Started(n) ==
    /\ branches = [p \in Pairs |-> {}]
    /\ files = [p \in Pairs |-> {}]
    /\ prs = [p \in Pairs |-> {}]
    /\ Since \in [1..n -> SinceDates]
    /\ LastChecked = Since
    /\ SourceRepoName \in [1..n -> RepoNames]
    /\ TargetRepoName \in [1..n -> RepoNames]
    /\ fatal = FALSE
    /\ tickerC = FALSE
    /\ ctxDone = FALSE
    /\ runPc = "select"
    /\ wg = 0
    /\ sigPc = "recv"
    /\ mu = FALSE
    /\ pc = [g \in Cycles |-> "unborn"]
    /\ kind = [g \in Cycles |-> "none"]
    /\ idx = [g \in Cycles |-> 1]
    /\ config = [g \in Cycles |-> 0]
    /\ newCommits = [g \in Cycles |-> <<>>]
    /\ branchName = [g \in Cycles |-> 0]
    /\ calls = [g \in Cycles |-> <<>>]
    /\ stamp = [g \in Cycles |-> 0]
    /\ lastDone = [any |-> FALSE, pub |-> {}, quiet |-> FALSE]
    /\ published = [g \in Cycles |-> {}]

\* the process starts at instant 1 against source repositories in which the
\* watched files have no commit yet
Loaded(n) ==
    /\ now = 1
    /\ hostCommits = [p \in Pairs |-> {}]
    /\ Started(n)

ScanIdle ==
    /\ scanCommits = <<>>
    /\ scanSince = 0
    /\ scanErr = FALSE
    /\ scanState = "idle"
    /\ scanResult = <<>>

\* concurrent cycles are explored on a configuration of one pair, several
\* pairs with one cycle
Init ==
    /\ \E n \in Pairs :
          /\ Loaded(n)
          /\ startsLeft = IF n = 1 THEN MaxCycles ELSE 1
    /\ ScanIdle

\* ---- the environment ----------------------------------------------------

\* the process is gone once Run has returned (main returns right after it)
\* or log.Fatalf has run
Alive == runPc # "returned" /\ ~fatal

ClockTick ==
    /\ Alive
    /\ now < MaxTime
    /\ now' = now + 1
    /\ UNCHANGED <<hostVars, confVars, LastChecked, schedVars, cycleVars,
                   lastDone, startsLeft, scanVars>>

\* a commit touching the watched file becomes visible on the host; its author
\* date is whatever its author's machine recorded
Push(p, c) ==
    /\ Alive
    /\ p \in Configured
    /\ c \notin hostCommits[p]
    /\ Cardinality(UNION {hostCommits[q] : q \in Pairs}) < MaxPush
    /\ hostCommits' = [hostCommits EXCEPT ![p] = @ \cup {c}]
    /\ lastDone' = [lastDone EXCEPT !.quiet = FALSE]
    /\ UNCHANGED <<now, branches, files, prs, confVars, LastChecked, schedVars,
                   cycleVars, startsLeft, scanVars>>

\* ---- Server.Run and the signal goroutine --------------------------------

\* cycle identifiers are handed out in order
FreeCycle(g) ==
    /\ startsLeft > 0
    /\ pc[g] = "unborn"
    /\ \A h \in Cycles : h < g => pc[h] # "unborn"

\* the ticker delivers a tick into ticker.C (dropped when one is waiting)
TickerFire ==
    /\ Alive
    /\ ~tickerC
    /\ \E g \in Cycles : FreeCycle(g)
    /\ tickerC' = TRUE
    /\ UNCHANGED <<now, hostVars, confVars, LastChecked, ctxDone, runPc, wg,
                   sigPc, mu, cycleVars, lastDone, startsLeft, scanVars,
                   fatal>>

\* Run, case <-ticker.C: wg.Add(1); go func() { defer wg.Done(); checkRepos() }
\* select takes any ready case: a closed ctx.Done() does not disable this one
RunTick(g) ==
    /\ runPc = "select"
    /\ tickerC
    /\ FreeCycle(g)
    /\ tickerC' = FALSE
    /\ wg' = wg + 1
    /\ pc' = [pc EXCEPT ![g] = "range"]
    /\ kind' = [kind EXCEPT ![g] = "tick"]
    /\ startsLeft' = startsLeft - 1
    /\ UNCHANGED <<now, hostVars, confVars, LastChecked, ctxDone, runPc, sigPc,
                   mu, idx, config, newCommits, branchName, calls, stamp,
                   published, lastDone, scanVars,
                   fatal>>

\* Run, case <-ctx.Done(): goes on to wg.Wait()
RunDone ==
    /\ runPc = "select"
    /\ ctxDone
    /\ runPc' = "wait"
    /\ UNCHANGED <<now, hostVars, confVars, LastChecked, tickerC, ctxDone, wg,
                   sigPc, mu, cycleVars, lastDone, startsLeft, scanVars,
                   fatal>>

\* wg.Wait() returns when the counter is zero; Run returns, then main does
RunReturn ==
    /\ runPc = "wait"
    /\ wg = 0
    /\ runPc' = "returned"
    /\ UNCHANGED <<now, hostVars, confVars, LastChecked, tickerC, ctxDone, wg,
                   sigPc, mu, cycleVars, lastDone, startsLeft, scanVars,
                   fatal>>

\* signal goroutine, case SIGUSR1: triggerManualCheck locks s.mu, runs
\* go s.checkRepos() and unlocks on return; the signal goroutine is its only
\* caller, so the lock is free whenever it is asked for
triggerManualCheck(g) ==
    /\ Alive
    /\ sigPc = "recv"
    /\ ~mu
    /\ FreeCycle(g)
    /\ pc' = [pc EXCEPT ![g] = "range"]
    /\ kind' = [kind EXCEPT ![g] = "manual"]
    /\ startsLeft' = startsLeft - 1
    /\ mu' = FALSE
    /\ UNCHANGED <<now, hostVars, confVars, LastChecked, tickerC, ctxDone,
                   runPc,
                   wg, sigPc, idx, config, newCommits, branchName, calls,
                   stamp, published, lastDone, scanVars,
                   fatal>>

\* signal goroutine, case SIGTERM, SIGINT: stop(); return
Terminate ==
    /\ Alive
    /\ sigPc = "recv"
    /\ ctxDone' = TRUE
    /\ sigPc' = "returned"
    /\ UNCHANGED <<now, hostVars, confVars, LastChecked, tickerC, runPc, wg, mu,
                   cycleVars, lastDone, startsLeft, scanVars,
                   fatal>>

\* ---- checkRepos, one goroutine per cycle --------------------------------

\* "continue" and the end of the loop body: on to the next pair; the
\* variables of the iteration (config, newCommits, err, ...) end with it
LeavePair(g) ==
    /\ idx' = [idx EXCEPT ![g] = @ + 1]
    /\ config' = [config EXCEPT ![g] = 0]
    /\ newCommits' = [newCommits EXCEPT ![g] = <<>>]
    /\ branchName' = [branchName EXCEPT ![g] = 0]
    /\ stamp' = [stamp EXCEPT ![g] = 0]

\* for i, config := range s.repoConfigs: the pair is copied into config
RangeNext(g) ==
    /\ Alive
    /\ pc[g] = "range"
    /\ idx[g] <= Len(LastChecked)
    /\ config' = [config EXCEPT ![g] = LastChecked[idx[g]]]
    /\ calls' = [calls EXCEPT ![g] = <<>>]
    /\ pc' = [pc EXCEPT ![g] = "ListCommits"]
    /\ UNCHANGED <<now, hostVars, confVars, LastChecked, schedVars, kind, idx,
                   newCommits, branchName, stamp, published, lastDone,
                   startsLeft, scanVars>>

\* the loop is over: checkRepos returns; a tick goroutine runs wg.Done()
checkReposReturn(g) ==
    /\ Alive
    /\ pc[g] = "range"
    /\ idx[g] > Len(LastChecked)
    /\ pc' = [pc EXCEPT ![g] = "done"]
    /\ wg' = IF kind[g] = "tick" THEN wg - 1 ELSE wg
    /\ lastDone' = [any |-> TRUE, pub |-> published[g],
                    quiet |-> \A h \in Cycles \ {g} :
                                 pc[h] \in {"unborn", "done"}]
    /\ calls' = [calls EXCEPT ![g] = <<>>]
    /\ published' = [published EXCEPT ![g] = {}]
    /\ UNCHANGED <<now, hostVars, confVars, LastChecked, tickerC, ctxDone,
                   runPc,
                   sigPc, mu, kind, idx, config, newCommits, branchName,
                   stamp, startsLeft, scanVars,
                   fatal>>

\* checkRepo begins with parseRepoName(repoName): on an identifier that is
\* not owner/repo, log.Fatalf ends the process
checkRepoFatal(g) ==
    /\ Alive
    /\ pc[g] = "ListCommits"
    /\ ~parseRepoNameReturns(SourceRepoName[idx[g]])
    /\ fatal' = TRUE
    /\ UNCHANGED <<now, hostVars, confVars, LastChecked, tickerC, ctxDone,
                   runPc, wg, sigPc, mu, cycleVars, lastDone, startsLeft,
                   scanVars>>

\* checkRepo: ListCommits fails; checkRepos logs and continues
ListCommitsError(g) ==
    /\ Alive
    /\ pc[g] = "ListCommits"
    /\ parseRepoNameReturns(SourceRepoName[idx[g]])
    /\ calls' = [calls EXCEPT ![g] = Append(@, Call("ListCommits", FALSE))]
    /\ pc' = [pc EXCEPT ![g] = "range"]
    /\ LeavePair(g)
    /\ UNCHANGED <<now, hostVars, confVars, LastChecked, schedVars, kind,
                   published, lastDone, startsLeft, scanVars>>

\* a checkRepos that publishes whatever checkRepo returned
AfterScanAlways(found) == "GetRef"

\* where checkRepos goes with the result of checkRepo
AfterScan(found) == IF Len(found) > 0 THEN "GetRef" ELSE "range"

\* checkRepo: ListCommits answers; the filter runs; with commits found
\* createPullRequest is entered and names its branch after time.Now()
ListCommitsOk(g) ==
    /\ Alive
    /\ pc[g] = "ListCommits"
    /\ parseRepoNameReturns(SourceRepoName[idx[g]])
    /\ LET found == checkRepo(ListCommits(idx[g], config[g]), config[g])
       IN /\ AfterScan(found) = "GetRef" =>
                 parseRepoNameReturns(TargetRepoName[idx[g]])
          /\ pc' = [pc EXCEPT ![g] = AfterScan(found)]
          /\ IF AfterScan(found) = "range"
             THEN LeavePair(g)
             ELSE /\ newCommits' = [newCommits EXCEPT ![g] = found]
                  /\ branchName' = [branchName EXCEPT ![g] = now]
                  /\ UNCHANGED <<idx, config, stamp>>
    /\ calls' = [calls EXCEPT ![g] = Append(@, Call("ListCommits", TRUE))]
    /\ UNCHANGED <<now, hostVars, confVars, LastChecked, schedVars, kind,
                   published, lastDone, startsLeft, scanVars>>

\* checkRepo found commits and createPullRequest begins with
\* parseRepoName(targetRepoName): on an identifier that is not owner/repo,
\* log.Fatalf ends the process
createPullRequestFatal(g) ==
    /\ Alive
    /\ pc[g] = "ListCommits"
    /\ parseRepoNameReturns(SourceRepoName[idx[g]])
    /\ LET found == checkRepo(ListCommits(idx[g], config[g]), config[g])
       IN /\ AfterScan(found) = "GetRef"
          /\ newCommits' = [newCommits EXCEPT ![g] = found]
    /\ ~parseRepoNameReturns(TargetRepoName[idx[g]])
    /\ calls' = [calls EXCEPT ![g] = Append(@, Call("ListCommits", TRUE))]
    /\ fatal' = TRUE
    /\ UNCHANGED <<now, hostVars, confVars, LastChecked, tickerC, ctxDone,
                   runPc, wg, sigPc, mu, pc, kind, idx, config, branchName,
                   stamp, published, lastDone, startsLeft, scanVars>>

\* where createPullRequest goes after each remote call: "range" stands for
\* "return err", after which checkRepos logs and goes to the next pair
AfterGetRef(ok) == IF ok THEN "CreateRef" ELSE "range"

\* a createPullRequest that drops the error of CreateRef
AfterCreateRefUnchecked(ok) == "CreateFile"

AfterCreateRef(ok) == IF ok THEN "CreateFile" ELSE "range"

AfterCreateFile(ok) == IF ok THEN "PullRequestsCreate" ELSE "range"

AfterPullRequestsCreate(ok) == IF ok THEN "store" ELSE "range"

\* one remote call of createPullRequest made by cycle g, with its outcome
Step(g, at, op, ok, next) ==
    /\ Alive
    /\ pc[g] = at
    /\ calls' = [calls EXCEPT ![g] = Append(@, Call(op, ok))]
    /\ pc' = [pc EXCEPT ![g] = next]
    /\ IF next = "range"
       THEN LeavePair(g)
       ELSE UNCHANGED <<idx, config, newCommits, branchName>>

\* Git.GetRef(refs/heads/main)
GetRef(g, ok) ==
    /\ Step(g, "GetRef", "GetRef", ok, AfterGetRef(ok))
    /\ AfterGetRef(ok) # "range" => UNCHANGED stamp
    /\ UNCHANGED <<now, hostVars, confVars, LastChecked, schedVars, kind,
                   published, lastDone, startsLeft, scanVars>>

\* Git.CreateRef(refs/heads/<branchName>): the host refuses an existing name
CreateRef(g, ok) ==
    /\ Step(g, "CreateRef", "CreateRef", ok, AfterCreateRef(ok))
    /\ ok => branchName[g] \notin branches[idx[g]]
    /\ AfterCreateRef(ok) # "range" => UNCHANGED stamp
    /\ branches' = IF ok
                   THEN [branches EXCEPT ![idx[g]] = @ \cup {branchName[g]}]
                   ELSE branches
    /\ UNCHANGED <<now, hostCommits, files, prs, confVars, LastChecked,
                   schedVars,
                   kind, published, lastDone, startsLeft, scanVars>>

\* Repositories.CreateFile on the new branch
CreateFile(g, ok) ==
    /\ Step(g, "CreateFile", "CreateFile", ok, AfterCreateFile(ok))
    /\ AfterCreateFile(ok) # "range" => UNCHANGED stamp
    /\ files' = IF ok THEN [files EXCEPT ![idx[g]] = @ \cup {branchName[g]}]
                ELSE files
    /\ UNCHANGED <<now, hostCommits, branches, prs, confVars, LastChecked,
                   schedVars, kind, published, lastDone, startsLeft, scanVars>>

\* PullRequests.Create; on success createPullRequest returns nil and
\* checkRepos evaluates time.Now() for the watermark
PullRequestsCreate(g, ok) ==
    /\ Step(g, "PullRequestsCreate", "PullRequestsCreate", ok,
            AfterPullRequestsCreate(ok))
    /\ AfterPullRequestsCreate(ok) # "range" =>
           stamp' = [stamp EXCEPT ![g] = now]
    /\ prs' = IF ok
              THEN [prs EXCEPT ![idx[g]] =
                       @ \cup {[head |-> branchName[g],
                                body |-> newCommits[g]]}]
              ELSE prs
    /\ published' = IF ok THEN [published EXCEPT ![g] = @ \cup {idx[g]}]
                    ELSE published
    /\ UNCHANGED <<now, hostCommits, branches, files, confVars, LastChecked,
                   schedVars, kind, lastDone, startsLeft, scanVars>>

\* a checkRepos that stores the new watermark into every pair
StoreLastCheckedAll(g) ==
    /\ Alive
    /\ pc[g] = "store"
    /\ LastChecked' = [p \in DOMAIN LastChecked |-> stamp[g]]
    /\ pc' = [pc EXCEPT ![g] = "range"]
    /\ LeavePair(g)
    /\ UNCHANGED <<now, hostVars, confVars, schedVars, kind, calls, published,
                   lastDone, startsLeft, scanVars>>

\* s.repoConfigs[i].LastChecked = <the value time.Now() returned>
StoreLastChecked(g) ==
    /\ Alive
    /\ pc[g] = "store"
    /\ LastChecked' = [LastChecked EXCEPT ![idx[g]] = stamp[g]]
    /\ pc' = [pc EXCEPT ![g] = "range"]
    /\ LeavePair(g)
    /\ UNCHANGED <<now, hostVars, confVars, schedVars, kind, calls, published,
                   lastDone, startsLeft, scanVars>>

Next ==
    \/ ClockTick
    \/ \E p \in Pairs, c \in Dates : Push(p, c)
    \/ TickerFire
    \/ \E g \in Cycles : RunTick(g)
    \/ RunDone
    \/ RunReturn
    \/ \E g \in Cycles : triggerManualCheck(g)
    \/ Terminate
    \/ \E g \in Cycles : RangeNext(g)
    \/ \E g \in Cycles : checkReposReturn(g)
    \/ \E g \in Cycles : checkRepoFatal(g)
    \/ \E g \in Cycles : createPullRequestFatal(g)
    \/ \E g \in Cycles : ListCommitsError(g)
    \/ \E g \in Cycles : ListCommitsOk(g)
    \/ \E g \in Cycles, ok \in BOOLEAN : GetRef(g, ok)
    \/ \E g \in Cycles, ok \in BOOLEAN : CreateRef(g, ok)
    \/ \E g \in Cycles, ok \in BOOLEAN : CreateFile(g, ok)
    \/ \E g \in Cycles, ok \in BOOLEAN : PullRequestsCreate(g, ok)
    \/ \E g \in Cycles : StoreLastChecked(g)

Spec == Init /\ [][Next]_vars

\* ---- stopping and starting again ----------------------------------------

\* the process has ended and is started again: main calls loadConfig, which
\* reads config.toml and sets LastChecked of every pair to its parsed "since"
\* date; nothing in the program writes config.toml. The host keeps what it
\* holds; nothing of the old process is left
Restart ==
    /\ ~Alive
    /\ LastChecked' = Since
    /\ tickerC' = FALSE
    /\ ctxDone' = FALSE
    /\ runPc' = "select"
    /\ wg' = 0
    /\ sigPc' = "recv"
    /\ mu' = FALSE
    /\ fatal' = FALSE
    /\ pc' = [g \in Cycles |-> "unborn"]
    /\ kind' = [g \in Cycles |-> "none"]
    /\ idx' = [g \in Cycles |-> 1]
    /\ config' = [g \in Cycles |-> 0]
    /\ newCommits' = [g \in Cycles |-> <<>>]
    /\ branchName' = [g \in Cycles |-> 0]
    /\ calls' = [g \in Cycles |-> <<>>]
    /\ stamp' = [g \in Cycles |-> 0]
    /\ published' = [g \in Cycles |-> {}]
    /\ lastDone' = [any |-> FALSE, pub |-> {}, quiet |-> FALSE]
    /\ UNCHANGED <<now, hostVars, confVars, startsLeft, scanVars>>

NextRestart == Next \/ Restart

SpecRestart == Init /\ [][NextRestart]_vars

\* ---- one publish on its own --------------------------------------------

\* a run with one configured pair in which checkRepos is started once, by
\* the ticker or by SIGUSR1
InitPublish ==
    /\ Loaded(1)
    /\ startsLeft = 1
    /\ ScanIdle

SpecPublish == InitPublish /\ [][Next]_vars

\* ---- one cycle over all pairs -----------------------------------------

\* a run with NumPairs configured pairs in which checkRepos is started once;
\* the first pair's watched file has no commit when the process starts, the
\* others' have commits, none dated after the start
InitPairs ==
    /\ now = MaxTime - 1
    /\ hostCommits = [p \in Pairs |-> IF p = 1 THEN {} ELSE 1..(MaxPush - 1)]
    /\ Started(NumPairs)
    /\ startsLeft = 1
    /\ ScanIdle

SpecPairs == InitPairs /\ [][Next]_vars

\* ---- a host that never fails ------------------------------------------

\* every call to the host succeeds: ListCommits answers and GetRef, CreateRef,
\* CreateFile and PullRequests.Create return without error
NextAllSucceed ==
    \/ ClockTick
    \/ \E p \in Pairs, c \in Dates : Push(p, c)
    \/ TickerFire
    \/ \E g \in Cycles : RunTick(g)
    \/ RunDone
    \/ RunReturn
    \/ \E g \in Cycles : triggerManualCheck(g)
    \/ Terminate
    \/ \E g \in Cycles : RangeNext(g)
    \/ \E g \in Cycles : checkReposReturn(g)
    \/ \E g \in Cycles : checkRepoFatal(g)
    \/ \E g \in Cycles : createPullRequestFatal(g)
    \/ \E g \in Cycles : ListCommitsOk(g)
    \/ \E g \in Cycles : GetRef(g, TRUE)
    \/ \E g \in Cycles : CreateRef(g, TRUE)
    \/ \E g \in Cycles : CreateFile(g, TRUE)
    \/ \E g \in Cycles : PullRequestsCreate(g, TRUE)
    \/ \E g \in Cycles : StoreLastChecked(g)

SpecAllSucceed == Init /\ [][NextAllSucceed]_vars

\* ---- a server that runs on ------------------------------------------

\* a checkRepos goroutine that has returned is gone; the next "go
\* s.checkRepos(ctx)" starts a new one, with fresh local variables
Reap(g) ==
    /\ pc[g] = "done"
    /\ pc' = [pc EXCEPT ![g] = "unborn"]
    /\ kind' = [kind EXCEPT ![g] = "none"]
    /\ idx' = [idx EXCEPT ![g] = 1]
    /\ startsLeft' = startsLeft + 1
    /\ UNCHANGED <<now, hostVars, confVars, LastChecked, schedVars, config,
                   newCommits, branchName, calls, stamp, published, lastDone,
                   scanVars>>

NextLive == Next \/ \E g \in Cycles : Reap(g)

\* the steps of the checkRepos goroutine g
CycleStep(g) ==
    \/ RangeNext(g)
    \/ checkReposReturn(g)
    \/ checkRepoFatal(g)
    \/ createPullRequestFatal(g)
    \/ ListCommitsError(g)
    \/ ListCommitsOk(g)
    \/ \E ok \in BOOLEAN : GetRef(g, ok)
    \/ \E ok \in BOOLEAN : CreateRef(g, ok)
    \/ \E ok \in BOOLEAN : CreateFile(g, ok)
    \/ \E ok \in BOOLEAN : PullRequestsCreate(g, ok)
    \/ StoreLastChecked(g)
    \/ Reap(g)

\* the ticker keeps ticking, Run's select takes a waiting tick, and every
\* goroutine that can take a step does so in the end
FairLive ==
    /\ WF_vars(TickerFire)
    /\ WF_vars(\E g \in Cycles : RunTick(g))
    /\ \A g \in Cycles : WF_vars(CycleStep(g))

\* one pair, one checkRepos at a time, for as long as the process lives
SpecLive == InitPublish /\ [][NextLive]_vars /\ FairLive

\* ---- checkRepo on its own -----------------------------------------------

RECURSIVE SeqsUpTo(_, _)
SeqsUpTo(S, n) ==
    IF n = 0 THEN {<<>>}
    ELSE LET shorter == SeqsUpTo(S, n - 1)
         IN shorter \cup {Append(s, x) : s \in shorter, x \in S}

\* any answer of the host and any watermark: lists in any order, with dates
\* before, at and after lastChecked, with repeated dates
InitScan ==
    /\ Loaded(1)
    /\ startsLeft = 0
    /\ scanCommits \in SeqsUpTo(Times, MaxLen)
    /\ scanSince \in Times
    /\ scanErr \in BOOLEAN
    /\ scanState = "ready"
    /\ scanResult = <<>>

\* checkRepo(repoName, filePath, lastChecked) returns (newCommits, err)
checkRepoCall ==
    /\ scanState = "ready"
    /\ scanState' = "returned"
    /\ scanResult' = IF scanErr THEN <<>> ELSE checkRepo(scanCommits, scanSince)
    /\ UNCHANGED <<scanCommits, scanSince, scanErr, sysVars>>

NextScan == checkRepoCall

SpecScan == InitScan /\ [][NextScan]_vars

\* ---- the claims ---------------------------------------------------------

\* the remote calls and the store between which a cycle is at work on a pair
Working == {"ListCommits", "GetRef", "CreateRef", "CreateFile",
            "PullRequestsCreate", "store"}

Processing(g, p) == pc[g] \in Working /\ idx[g] = p

\* the commits listed in the body of some created pull request of pair p
Listed(p) == UNION {Elems(pr.body) : pr \in prs[p]}

Last(s) == s[Len(s)]

\* cycle g leaves its current pair in this step after a failed remote call
FailsOnPair(g) ==
    /\ pc[g] \in Working
    /\ pc'[g] = "range"
    /\ calls'[g] # <<>>
    /\ ~Last(calls'[g]).ok

\* C1: at any time at most one execution of checkRepos is at work on a given
\* pair, whichever way the executions were started.
C1_OneCyclePerPair ==
    \A p \in Configured : Cardinality({g \in Cycles : Processing(g, p)}) <= 1

\* C2: when the scan or a publish step of a cycle fails on a pair, the pair's
\* watermark at the moment the cycle leaves the pair is the value it had when
\* the cycle started on the pair (the value copied into config).
C2_FailureKeepsWatermark ==
    [][\A g \in Cycles :
          FailsOnPair(g) => LastChecked'[idx[g]] = config[g]]_vars

\* the part of C2 about the failing cycle alone: none of its steps on the
\* pair, up to and including the failing one, writes the watermark
FailingCycleDoesNotWrite ==
    [][\A g \in Cycles :
          (pc[g] \in Working \ {"store"} /\ pc'[g] # pc[g])
              => LastChecked'[idx[g]] = LastChecked[idx[g]]]_vars

\* C3: every visible commit dated after the pair's initial watermark has been
\* listed in a created pull request or is still dated after the watermark.
C3_AtLeastOnce ==
    \A p \in Configured :
        \A c \in hostCommits[p] :
            c > Since[p] => (c \in Listed(p) \/ c > LastChecked[p])

\* C4: no write to a pair's watermark stores a value smaller than the one it
\* replaces.
C4_WatermarkMovesForward ==
    [][\A p \in Configured : LastChecked'[p] >= LastChecked[p]]_vars

\* C5: checkRepo returns exactly the commits of the host's list whose author
\* date is strictly after lastChecked, in the order of the list.
C5_ScanKeepsStrictlyNewer ==
    (scanState = "returned" /\ ~scanErr) =>
        LET keep == {k \in DOMAIN scanCommits : scanCommits[k] > scanSince}
        IN /\ Len(scanResult) = Cardinality(keep)
           /\ \A j \in DOMAIN scanResult :
                 /\ scanResult[j] > scanSince
                 /\ \E k \in keep :
                       /\ Cardinality({m \in keep : m <= k}) = j
                       /\ scanResult[j] = scanCommits[k]

\* checkRepo has returned for a list that holds a commit before, one at and
\* one after lastChecked
C5_Witness ==
    /\ scanState = "returned"
    /\ ~scanErr
    /\ Len(scanCommits) = 3
    /\ \E i, j, k \in DOMAIN scanCommits :
          /\ scanCommits[i] < scanSince
          /\ scanCommits[j] = scanSince
          /\ scanCommits[k] > scanSince
    /\ Len(scanResult) = 1

\* C6: the store that follows a successful publish leaves the pair's
\* watermark at or after the author date of every commit listed in the pull
\* request.
C6_WatermarkCoversPublished ==
    [][\A g \in Cycles :
          (pc[g] = "store" /\ pc'[g] = "range")
              => \A c \in Elems(newCommits[g]) : LastChecked'[idx[g]] >= c]_vars

\* C7: a cycle that runs alone after a completed cycle, with no commit having
\* appeared since that cycle completed, starts no publish for a pair the
\* completed cycle published: its scan of that pair finds nothing.
C7_SecondCycleFindsNothing ==
    [][\A g \in Cycles :
          (/\ pc[g] = "ListCommits"
           /\ pc'[g] # "ListCommits"
           /\ lastDone.any
           /\ lastDone.quiet
           /\ idx[g] \in lastDone.pub
           /\ \A h \in Cycles \ {g} : pc[h] \in {"unborn", "done"})
              => pc'[g] = "range"]_vars

\* the order in which one pass over a pair makes its remote calls
CallOrder == <<"ListCommits", "GetRef", "CreateRef", "CreateFile",
               "PullRequestsCreate">>

\* the calls of a pass are made in order, each once, and only after every
\* earlier one succeeded; the watermark is stored only after all succeeded
CallsInOrder ==
    \A g \in Cycles :
        /\ Len(calls[g]) <= Len(CallOrder)
        /\ \A k \in DOMAIN calls[g] :
              /\ calls[g][k].op = CallOrder[k]
              /\ k < Len(calls[g]) => calls[g][k].ok
        /\ (calls[g] # <<>> /\ ~Last(calls[g]).ok) => pc[g] = "range"
        /\ pc[g] = "store" =>
              (Len(calls[g]) = Len(CallOrder) /\ Last(calls[g]).ok)

\* cycle g makes the k-th call of its pass in this step, and it succeeds
Makes(g, k) ==
    /\ Len(calls[g]) = k - 1
    /\ Len(calls'[g]) = k
    /\ calls'[g][k] = Call(CallOrder[k], TRUE)

\* a branch, a file, a pull request appears in the target repository only by
\* the matching call of a pass, for that pass's branch name
EffectsInOrder ==
    \A p \in Pairs :
        /\ branches'[p] # branches[p] =>
              \E g \in Cycles :
                  /\ idx[g] = p /\ Makes(g, 3)
                  /\ branches'[p] = branches[p] \cup {branchName[g]}
        /\ files'[p] # files[p] =>
              \E g \in Cycles :
                  /\ idx[g] = p /\ Makes(g, 4)
                  /\ branchName[g] \in branches[p]
                  /\ files'[p] = files[p] \cup {branchName[g]}
        /\ prs'[p] # prs[p] =>
              \E g \in Cycles :
                  /\ idx[g] = p /\ Makes(g, 5)
                  /\ branchName[g] \in files[p]
                  /\ prs'[p] = prs[p] \cup {[head |-> branchName[g],
                                              body |-> newCommits[g]]}

\* C8: within one publish the remote operations happen in the order ref
\* lookup, branch, file, pull request, each at most once, and a failure of one
\* aborts the later ones: no branch without the ref, no file without the
\* branch, no pull request without the file.
C8_PublishStepsInOrder == []CallsInOrder /\ [][EffectsInOrder]_vars

\* a publish was aborted by a failed CreateFile: the branch exists, and there
\* is neither a file nor a pull request
C8_Witness ==
    \E g \in Cycles :
        /\ pc[g] = "range"
        /\ Len(calls[g]) = 4
        /\ ~calls[g][4].ok
        /\ branches[1] # {}
        /\ files[1] = {}
        /\ prs[1] = {}

\* C9: when Run has returned, every cycle that was started has run to its
\* end.
C9_RunWaitsForCycles ==
    runPc = "returned" => \A g \in Cycles : pc[g] \in {"unborn", "done"}

\* C10: once stop() has been called, no execution of checkRepos is started.
C10_NoStartAfterStop ==
    [][ctxDone => \A g \in Cycles : pc[g] = "unborn" => pc'[g] = "unborn"]_vars

\* C11: an error met while a cycle processes a pair (a failed scan, a failed
\* publish step, a repository identifier parseRepoName rejects) ends neither
\* the process nor the cycle: the process stays up and the cycle goes on to
\* the next pair.
C11_ErrorsContained ==
    [][/\ ~fatal => ~fatal'
       /\ \A g \in Cycles :
             FailsOnPair(g) => (idx'[g] = idx[g] + 1 /\ Alive')]_vars

\* C12: a process started again begins with the watermark its predecessor
\* held, the value of the last successful publish.
C12_WatermarkSurvivesRestart ==
    [][(~Alive /\ Alive') => LastChecked' = LastChecked]_vars

\* the positions of a cycle inside createPullRequest and the store after it
Publishing == {"GetRef", "CreateRef", "CreateFile", "PullRequestsCreate",
               "store"}

\* cycle g enters createPullRequest in this step and names its branch
EntersPublish(g) == pc[g] = "ListCommits" /\ pc'[g] = "GetRef"

\* the name a publish takes is not the name of a branch of the target
\* repository nor the name of a publish under way for the same pair
FreshBranchName ==
    \A g \in Cycles :
        EntersPublish(g) =>
            /\ branchName'[g] \notin branches[idx[g]]
            /\ \A h \in Cycles \ {g} :
                  (pc[h] \in Publishing /\ idx[h] = idx[g])
                      => branchName[h] # branchName'[g]

\* a CreateRef on a name that exists ends the publish as a failure: no
\* watermark is written
CollisionIsFailure ==
    \A g \in Cycles :
        (/\ pc[g] = "CreateRef"
         /\ pc'[g] # "CreateRef"
         /\ branchName[g] \in branches[idx[g]])
            => (pc'[g] = "range" /\ LastChecked' = LastChecked)

\* C13: two publishes for the same pair that name their branch within the
\* same second get distinct names (or the second waits for the next second),
\* and a branch creation refused for a name collision is never taken for a
\* successful publish.
C13_BranchNamesUnique == [][FreshBranchName /\ CollisionIsFailure]_vars

\* the branches of pair p's target repository that no pull request was
\* created for: what failed publishes left behind
Leftover(p) == branches[p] \ {pr.head : pr \in prs[p]}

\* cycle g was started after the last completed cycle had returned, with no
\* push in between, and no other cycle is at work
RetryAlone(g) ==
    /\ lastDone.any
    /\ lastDone.quiet
    /\ \A h \in Cycles \ {g} : pc[h] \in {"unborn", "done"}

\* no remote call is made twice for one pair within one cycle
AttemptedOnce ==
    \A g \in Cycles :
        \A i, j \in DOMAIN calls[g] :
            i # j => calls[g][i].op # calls[g][j].op

\* a publish that follows a completed cycle takes a branch name that no
\* failed publish has left in the target repository
RetryTakesNewName ==
    \A g \in Cycles :
        (EntersPublish(g) /\ RetryAlone(g))
            => branchName'[g] \notin Leftover(idx[g])

\* C14: within one cycle each remote step for a pair is attempted at most
\* once; after a failed publish the next cycle runs the workflow again under
\* a branch name different from the failed attempt's, so that the branch the
\* failed attempt left behind does not make the new attempt fail.
C14_RetryUsesNewBranch == []AttemptedOnce /\ [][RetryTakesNewName]_vars

\* the remote calls of createPullRequest
PublishCalls == {"GetRef", "CreateRef", "CreateFile", "PullRequestsCreate"}

\* cycle g's scan of its current pair ends in this step with an error or
\* with no commit newer than the watermark
ScanGivesNothing(g) ==
    /\ pc[g] = "ListCommits"
    /\ calls'[g] # calls[g]
    /\ \/ ~Last(calls'[g]).ok
       \/ checkRepo(ListCommits(idx[g], config[g]), config[g]) = <<>>

\* a cycle is inside the publish workflow, or has made one of its calls,
\* only after its scan of the pair answered with at least one commit
PublishOnlyAfterScan ==
    \A g \in Cycles :
        /\ pc[g] \in Publishing =>
              /\ calls[g] # <<>>
              /\ calls[g][1] = Call("ListCommits", TRUE)
              /\ newCommits[g] # <<>>
        /\ \A i \in DOMAIN calls[g] :
              calls[g][i].op \in PublishCalls =>
                  (i > 1 /\ calls[g][1] = Call("ListCommits", TRUE))

\* after a scan with nothing to publish the cycle goes to the next pair with
\* no further call, and the target repository and the watermarks are as before
NothingFoundNothingDone ==
    \A g \in Cycles :
        ScanGivesNothing(g) =>
            /\ pc'[g] = "range"
            /\ idx'[g] = idx[g] + 1
            /\ Len(calls'[g]) = 1
            /\ <<branches, files, prs>>' = <<branches, files, prs>>
            /\ LastChecked' = LastChecked

\* C15: the publish workflow runs for a pair only after the same cycle's scan
\* of it returned without error and with at least one commit; on an empty
\* result or an error the cycle makes no publish call for the pair, leaves the
\* target repository and the watermark as they are and goes to the next pair.
C15_PublishOnlyWhenFound ==
    []PublishOnlyAfterScan /\ [][NothingFoundNothingDone]_vars

\* a scan answered without error and with no commit, and the cycle has gone
\* on to the next pair having made no other call
C15_Witness ==
    \E g \in Cycles :
        /\ pc[g] = "range"
        /\ idx[g] = 2
        /\ calls[g] = <<Call("ListCommits", TRUE)>>

\* cycle g takes a step
StepOf(g) == pc'[g] # pc[g] \/ calls'[g] # calls[g]

\* a step of a cycle leaves the watermark of every pair but its current one
\* as it is, and writes the current pair's only as the store after a publish
OwnWatermarkOnly ==
    \A g \in Cycles :
        StepOf(g) =>
            /\ \A q \in Configured \ {idx[g]} :
                  LastChecked'[q] = LastChecked[q]
            /\ LastChecked' # LastChecked => pc[g] = "store"
            /\ (pc[g] = "range" /\ pc'[g] = "ListCommits")
                   => config'[g] = LastChecked[idx[g]]

\* a cycle never comes back to a pair, and the step with which it leaves a
\* pair is the store of the watermark exactly when the publish succeeded
WrittenOncePerPublish ==
    \A g \in Cycles :
        /\ idx'[g] >= idx[g]
        /\ (pc[g] \in Working /\ pc'[g] = "range") =>
              /\ idx'[g] = idx[g] + 1
              /\ pc[g] = "store"
                    <=> Last(calls'[g]) = Call("PullRequestsCreate", TRUE)
              /\ pc[g] = "store"
                    => LastChecked' =
                           [LastChecked EXCEPT ![idx[g]] = stamp[g]]
        /\ (pc[g] # "store" /\ pc'[g] = "store") =>
              (pc[g] = "PullRequestsCreate" /\ idx'[g] = idx[g])

\* a watermark changes only by the store of a cycle
OnlyCyclesWrite ==
    LastChecked' # LastChecked =>
        \E g \in Cycles : pc[g] = "store" /\ pc'[g] = "range"

\* C16: processing pair i in a cycle reads and writes only pair i's
\* watermark, whatever the outcome for pair i; a cycle writes a pair's
\* watermark at most once, and exactly once when the pair's publish succeeded.
C16_PairsIndependent ==
    [][OwnWatermarkOnly /\ WrittenOncePerPublish /\ OnlyCyclesWrite]_vars

\* one cycle is over: it failed on one pair and published for a later one,
\* and only the later pair's watermark has moved
C16_Witness ==
    \E g \in Cycles, p, q \in Configured :
        /\ pc[g] = "done"
        /\ p < q
        /\ LastChecked[p] = Since[p]
        /\ hostCommits[p] # {}
        /\ prs[p] = {}
        /\ prs[q] # {}
        /\ LastChecked[q] > Since[q]

\* C17: when every host call succeeds and the process is not restarted, a
\* commit of the source repository is listed in the body of at most one pull
\* request created for its pair, whatever the interleaving of ticks and
\* manual triggers.
C17_NoDuplicateNotification ==
    \A p \in Pairs :
        \A a, b \in prs[p] :
            a # b => Elems(a.body) \cap Elems(b.body) = {}

\* commit c of pair p is newer than the pair's watermark and in no pull
\* request yet
Pending(p, c) ==
    /\ p \in Configured
    /\ c \in hostCommits[p]
    /\ c > LastChecked[p]
    /\ c \notin Listed(p)

\* a cycle has just gone through pair p with every host call succeeding
PassOk(p) ==
    \E g \in Cycles :
        /\ pc[g] = "range"
        /\ idx[g] = p + 1
        /\ calls[g] # <<>>
        /\ \A i \in DOMAIN calls[g] : calls[g][i].ok

\* a cycle has been started and is at the head of its loop
CycleBegins == \E g \in Cycles : pc[g] = "range" /\ idx[g] = 1

\* if no shutdown is requested and again and again a cycle goes through the
\* pair with all its host calls succeeding, a commit newer than the watermark
\* is listed in a pull request in the end
EventuallyListed ==
    \A p \in Pairs, c \in Dates :
        ([]~ctxDone /\ []<>PassOk(p))
            => [](Pending(p, c) => <>(c \in Listed(p)))

\* as long as the process lives and no shutdown is requested, cycles go on
\* being started whatever the earlier ones did
SchedulerGoesOn == []Alive /\ []~ctxDone => []<>CycleBegins

\* C18: with ticks that keep firing, no shutdown and host calls that succeed
\* in the end, every commit on the watched file dated after the pair's
\* watermark is eventually listed in a created pull request; and a failed or
\* empty cycle never stops the scheduler from starting the next one.
C18_EventuallyPublished == EventuallyListed /\ SchedulerGoesOn

====
